---- MODULE Spec2Model ----
(***************************************************************************)
(* Model of the robot_teleop master pipeline: JointState, transform_joints, *)
(* validate_joint_limits and MasterNode (process_joint_state, start, stop,  *)
(* close), and of FollowerNode (start, stop, the receive thread and         *)
(* get_latest_joint_state).                                                 *)
(*                                                                          *)
(* Numbers: float64 values are modelled as integers.  Joint angles, matrix  *)
(* entries, joint offsets and limits are integers.  Gripper values and the  *)
(* gripper offset are fixed point with GripperUnit steps per 1.0, so the    *)
(* code's 0.0 and 1.0 clamp bounds are 0 and GripperUnit; gripper_scale is  *)
(* a pure integer factor.                                                   *)
(* Python indices are 0-based; sequences here are 1-based (see At).         *)
(***************************************************************************)
EXTENDS Integers, Sequences, FiniteSets, TLC

VARIABLES
    config,              \* what MasterNode.__init__ was given (parsed config file, or joint_limits argument)
    master,              \* the attributes __init__ sets from it
    running,             \* MasterNode.running
    messages_received,   \* MasterNode.messages_received
    messages_published,  \* MasterNode.messages_published
    messages_blocked,    \* MasterNode.messages_blocked
    pc,                  \* position of the thread running start(): "idle", "loop", "closed"
    closed,              \* number of close() calls made
    sent,                \* messages sent on the publisher socket, in order
    now,                 \* the value of time.time()
    last,                \* the last message the loop handled and what became of it
    n_taken,             \* history: messages taken from the subscriber socket
    n_processed,         \* history: calls of process_joint_state
    stop_called,         \* history: stop() has been called
    t_args,              \* arguments of a direct transform_joints call
    t_ret,               \* what that call returned
    a_call,              \* a direct call of another function of the package: its name and arguments
    a_ret,               \* what that call returned
    f_running,           \* FollowerNode.running
    f_pc,                \* position of each receive thread: "unborn", "loop", "store", "locked", "exited"
    f_local,             \* each receive thread's local joint_state
    f_heap,              \* the JointState objects of the follower's process, by identity
    f_latest,            \* FollowerNode.latest_joint_state: an identity, 0 for None
    f_lock,              \* holder of FollowerNode.lock: 0 free, a thread, or Consumer
    f_rx,                \* history: the records the receive threads decoded and the JointState built from each
    f_get,               \* position of the consumer in get_latest_joint_state: "idle", "locked"
    f_ret,               \* what get_latest_joint_state last returned: identity and fields at return
    f_gets,              \* history: calls of get_latest_joint_state
    cb_last,             \* subscribe_with_callback: last_timestamp
    cb_calls             \* history: the states the callback was called with, in order

masterVars == <<config, master, running, messages_received, messages_published,
                messages_blocked, pc, closed, sent, now, last, n_taken, n_processed, stop_called>>
transformVars == <<t_args, t_ret>>
apiVars == <<a_call, a_ret>>
cbVars == <<cb_last, cb_calls>>
followerVars == <<f_running, f_pc, f_local, f_heap, f_latest, f_lock, f_rx, f_get, f_ret, f_gets, cbVars>>
vars == <<masterVars, transformVars, apiVars, followerVars>>

----------------------------------------------------------------------------
(* Bounds of the model *)

GripperUnit == 2     \* fixed-point steps per 1.0 of gripper
MaxScale == 2        \* gripper_scale ranges over -MaxScale..MaxScale
MaxAmp == 2          \* input joint vectors are the base vectors times 1..MaxAmp
MaxMsgs == 3         \* messages the master loop handles in one run
MaxClock == 3        \* largest clock value
MaxThreads == 2      \* receive threads a follower starts in one run
MaxRecv == 2         \* records the receive threads take in one run
MaxGets == 2         \* get_latest_joint_state calls in one run

(* Program constants *)

NJoints == 6         \* JointState has joint_0 .. joint_5
PiFloor == 3         \* np.pi compared with integer joint values: v > pi iff v > 3

----------------------------------------------------------------------------
(* Python values *)

None == [some |-> FALSE]
Some(v) == [some |-> TRUE, val |-> v]

\* s[i] of a Python list, 0-based
At(s, i) == s[i + 1]

\* numpy accepts an index i of an array of length n iff -n <= i < n
NpIndexOk(i, n) == -n <= i /\ i < n
\* and a negative index counts from the end
NpPos(i, n) == IF i < 0 THEN n + i ELSE i

Raise(e) == [kind |-> "raise", exc |-> e]
PyList(js) == [kind |-> "list", joints |-> js]
PyTuple(js, g) == [kind |-> "tuple", joints |-> js, gripper |-> g]

\* len() of what transform_joints returns: a list, or a 2-tuple (joints, gripper)
PyLen(x) == IF x.kind = "tuple" THEN 2 ELSE Len(x.joints)

Max(a, b) == IF a >= b THEN a ELSE b
Min(a, b) == IF a <= b THEN a ELSE b

RECURSIVE Sum(_, _)
Sum(f, n) == IF n = 0 THEN 0 ELSE f[n] + Sum(f, n - 1)

----------------------------------------------------------------------------
(* JointState *)

\* the dataclass constructor with __post_init__: a timestamp of 0.0 becomes time.time()
JointState(joints, gripper, timestamp, t) ==
    [kind |-> "JointState", joints |-> joints, gripper |-> gripper,
     timestamp |-> IF timestamp = 0 THEN t ELSE timestamp]

to_list(self) == self.joints

\* from_list as it would be if only too short a list were refused
from_list_lenient(joint_values, gripper, timestamp, t) ==
    IF Len(joint_values) < NJoints THEN Raise("ValueError")
    ELSE JointState(SubSeq(joint_values, 1, NJoints), gripper,
                    IF timestamp.some /\ timestamp.val # 0 THEN timestamp.val ELSE t, t)

\* JointState.from_list(joint_values, gripper=0.0, timestamp=None)
from_list(joint_values, gripper, timestamp, t) ==
    IF Len(joint_values) # NJoints THEN Raise("ValueError")
    ELSE JointState(joint_values, gripper,
                    IF timestamp.some /\ timestamp.val # 0 THEN timestamp.val ELSE t, t)

\* apply_joint_values as it would be if the receiver's timestamp were kept
apply_joint_values_keep(self, joint_values, t) ==
    IF PyLen(joint_values) # NJoints THEN Raise("ValueError")
    ELSE JointState(joint_values.joints, self.gripper, self.timestamp, t)

\* JointState.apply_joint_values(joint_values); joint_values is whatever the caller passes
apply_joint_values(self, joint_values, t) ==
    IF PyLen(joint_values) # NJoints THEN Raise("ValueError")
    ELSE JointState(joint_values.joints, self.gripper, t, t)

----------------------------------------------------------------------------
(* transform_joints *)

RECURSIVE MappingLoop(_, _, _)
\* the loop over joint_mapping.items(): entries is the dict in insertion order
MappingLoop(entries, transformed, mapped) ==
    IF entries = <<>> THEN [ok |-> TRUE, arr |-> mapped]
    ELSE LET src_idx == entries[1][1]
             dst_idx == entries[1][2]
         IN  IF src_idx < Len(transformed) /\ dst_idx < Len(mapped)
             THEN IF NpIndexOk(src_idx, Len(transformed)) /\ NpIndexOk(dst_idx, Len(mapped))
                  THEN MappingLoop(Tail(entries), transformed,
                           [mapped EXCEPT ![NpPos(dst_idx, Len(mapped)) + 1] =
                                At(transformed, NpPos(src_idx, Len(transformed)))])
                  ELSE [ok |-> FALSE, arr |-> mapped]      \* IndexError
             ELSE MappingLoop(Tail(entries), transformed, mapped)

\* MappingStage as it would be if the output started as a copy of the input
MappingStagePassThrough(transformed, joint_mapping) ==
    IF joint_mapping.some /\ joint_mapping.val # <<>>
    THEN MappingLoop(joint_mapping.val, transformed, transformed)
    ELSE [ok |-> TRUE, arr |-> transformed]

\* "if joint_mapping:" -- None and the empty dict leave the values as they are
MappingStage(transformed, joint_mapping) ==
    IF joint_mapping.some /\ joint_mapping.val # <<>>
    THEN MappingLoop(joint_mapping.val, transformed, [i \in 1..Len(transformed) |-> 0])
    ELSE [ok |-> TRUE, arr |-> transformed]

Rows(m) == Len(m)
Cols(m) == IF Len(m) = 0 THEN 0 ELSE Len(m[1])

\* MatVec as it would be if the product left out the last column
MatVecShort(m, v) ==
    [i \in 1..Rows(m) |-> Sum([j \in 1..Len(v) |-> m[i][j] * v[j]], Len(v) - 1)]

\* transformation_matrix @ transformed
MatVec(m, v) == [i \in 1..Rows(m) |-> Sum([j \in 1..Len(v) |-> m[i][j] * v[j]], Len(v))]

\* MatrixStage as it would be if a wrong row count were an error
MatrixStageStrict(transformed, transformation_matrix) ==
    IF transformation_matrix.some
    THEN IF Rows(transformation_matrix.val) = Len(transformed)
            /\ Cols(transformation_matrix.val) = Len(transformed)
         THEN [ok |-> TRUE, arr |-> MatVec(transformation_matrix.val, transformed)]
         ELSE [ok |-> FALSE, arr |-> transformed]
    ELSE [ok |-> TRUE, arr |-> transformed]

\* "if transformation_matrix is not None": multiply when the row count matches
MatrixStage(transformed, transformation_matrix) ==
    IF transformation_matrix.some
    THEN IF Rows(transformation_matrix.val) = Len(transformed)
         THEN IF Cols(transformation_matrix.val) = Len(transformed)
              THEN [ok |-> TRUE, arr |-> MatVec(transformation_matrix.val, transformed)]
              ELSE [ok |-> FALSE, arr |-> transformed]     \* matmul ValueError
         ELSE [ok |-> TRUE, arr |-> transformed]           \* warning only
    ELSE [ok |-> TRUE, arr |-> transformed]

\* OffsetStage as it would be if short offsets were added to the leading joints
OffsetStageLeading(transformed, joint_offsets) ==
    IF joint_offsets.some
    THEN [i \in 1..Len(transformed) |->
             transformed[i] + (IF i <= Len(joint_offsets.val) THEN joint_offsets.val[i] ELSE 0)]
    ELSE transformed

\* "if joint_offsets is not None": add when the lengths match
OffsetStage(transformed, joint_offsets) ==
    IF joint_offsets.some /\ Len(joint_offsets.val) = Len(transformed)
    THEN [i \in 1..Len(transformed) |-> transformed[i] + joint_offsets.val[i]]
    ELSE transformed

\* GripperStage as it would be if the offset were added before scaling
GripperStageOffsetFirst(original_gripper, gripper_scale, gripper_offset) ==
    Max(0, Min(GripperUnit, (original_gripper + gripper_offset) * gripper_scale))

\* max(0.0, min(1.0, (original_gripper * gripper_scale) + gripper_offset))
GripperStage(original_gripper, gripper_scale, gripper_offset) ==
    Max(0, Min(GripperUnit, (original_gripper * gripper_scale) + gripper_offset))

\* TransformedJoints as it would be if the offsets were added before the matrix stage
TransformedJointsOffsetsFirst(values_to_transform, transformation_matrix, joint_mapping, joint_offsets) ==
    LET mapped == MappingStage(values_to_transform, joint_mapping)
    IN  IF ~mapped.ok THEN Raise("IndexError")
        ELSE LET multiplied == MatrixStage(OffsetStage(mapped.arr, joint_offsets),
                                           transformation_matrix)
             IN  IF ~multiplied.ok THEN Raise("ValueError") ELSE PyList(multiplied.arr)

\* the joint part of transform_joints: mapping, then matrix, then offsets
TransformedJoints(values_to_transform, transformation_matrix, joint_mapping, joint_offsets) ==
    LET mapped == MappingStage(values_to_transform, joint_mapping)
    IN  IF ~mapped.ok THEN Raise("IndexError")
        ELSE LET multiplied == MatrixStage(mapped.arr, transformation_matrix)
             IN  IF ~multiplied.ok THEN Raise("ValueError")
                 ELSE PyList(OffsetStage(multiplied.arr, joint_offsets))

\* transform_joints as it would be if a list were given a gripper of 0.0 and a pair returned
transform_joints_pair(joint_values, transformation_matrix, joint_mapping, joint_offsets, gripper_scale, gripper_offset) ==
    LET transformed == TransformedJoints(joint_values.joints, transformation_matrix,
                                         joint_mapping, joint_offsets)
    IN  IF transformed.kind = "raise" THEN transformed
        ELSE PyTuple(transformed.joints,
                     GripperStage(IF joint_values.kind = "JointState"
                                  THEN joint_values.gripper ELSE 0,
                                  gripper_scale, gripper_offset))

\* transform_joints: a list in, a list out; a JointState in, (joints, gripper) out
transform_joints(joint_values, transformation_matrix, joint_mapping, joint_offsets, gripper_scale, gripper_offset) ==
    LET is_joint_state == joint_values.kind = "JointState"
        transformed == TransformedJoints(joint_values.joints, transformation_matrix,
                                         joint_mapping, joint_offsets)
    IN  IF transformed.kind = "raise" THEN transformed
        ELSE IF is_joint_state
             THEN PyTuple(transformed.joints,
                          GripperStage(joint_values.gripper, gripper_scale, gripper_offset))
             ELSE transformed

----------------------------------------------------------------------------
(* validate_joint_limits *)

\* joint_limits maps joint indices (the i of "joint_i") to [min, max], either optional
Limit(lo, hi) == [min |-> Some(lo), max |-> Some(hi)]

\* MinVal as it would be if a missing 'min' stood for 0
MinValZero(entry) == IF entry.min.some THEN entry.min.val ELSE 0

\* joint_limits[joint_name].get('min', -np.pi)
MinVal(entry) == IF entry.min.some THEN entry.min.val ELSE -PiFloor

\* joint_limits[joint_name].get('max', np.pi)
MaxVal(entry) == IF entry.max.some THEN entry.max.val ELSE PiFloor

\* Violates as it would be if a value on a limit counted as outside it
ViolatesOnLimit(values_to_check, joint_limits, i) ==
    /\ i \in DOMAIN joint_limits
    /\ \/ At(values_to_check, i) <= MinVal(joint_limits[i])
       \/ At(values_to_check, i) >= MaxVal(joint_limits[i])

\* "value < min_val or value > max_val" for joint i (0-based) of values_to_check
Violates(values_to_check, joint_limits, i) ==
    /\ i \in DOMAIN joint_limits
    /\ \/ At(values_to_check, i) < MinVal(joint_limits[i])
       \/ At(values_to_check, i) > MaxVal(joint_limits[i])

RECURSIVE ViolationsFrom(_, _, _)
\* the enumerate loop from index i on; a violation message is modelled by what it names
ViolationsFrom(values_to_check, joint_limits, i) ==
    IF i >= Len(values_to_check) THEN <<>>
    ELSE (IF Violates(values_to_check, joint_limits, i)
          THEN << [joint |-> i, value |-> At(values_to_check, i),
                   min |-> MinVal(joint_limits[i]), max |-> MaxVal(joint_limits[i])] >>
          ELSE <<>>)
         \o ViolationsFrom(values_to_check, joint_limits, i + 1)

\* validate_joint_limits as it would be if an empty table let nothing through
validate_joint_limits_closed(values_to_check, joint_limits) ==
    LET violations == ViolationsFrom(values_to_check, joint_limits, 0)
    IN  [valid |-> Len(violations) = 0 /\ DOMAIN joint_limits # {}, violations |-> violations]

\* the loop over the values, then "return len(violations) == 0, violations"
validate_joint_limits(values_to_check, joint_limits) ==
    LET violations == ViolationsFrom(values_to_check, joint_limits, 0)
    IN  [valid |-> Len(violations) = 0, violations |-> violations]

----------------------------------------------------------------------------
(* Messages: a decoded JSON object is modelled by the keys it holds and their values *)

Message(decodable, jkeys, joint, has_gripper, gripper, has_timestamp, timestamp, has_joints, joints) ==
    [decodable |-> decodable, jkeys |-> jkeys, joint |-> joint,
     has_gripper |-> has_gripper, gripper |-> gripper,
     has_timestamp |-> has_timestamp, timestamp |-> timestamp,
     has_joints |-> has_joints, joints |-> joints]

\* JointState.to_dict
to_dict(self) ==
    Message(TRUE, 0..(NJoints - 1), self.joints, TRUE, self.gripper, TRUE, self.timestamp,
            FALSE, <<>>)

\* JointState.from_dict: data.get('joint_i', 0.0), data.get('timestamp', time.time())
from_dict(data, t) ==
    JointState([i \in 1..NJoints |-> IF (i - 1) \in data.jkeys THEN data.joint[i] ELSE 0],
               IF data.has_gripper THEN data.gripper ELSE 0,
               IF data.has_timestamp THEN data.timestamp ELSE t,
               t)

\* serialize_joint_message(joint_state) with a JointState and no timestamp argument
serialize_joint_message(joint_state) == to_dict(joint_state)

\* deserialize_joint_message: (JointState, its timestamp) or (list, timestamp)
deserialize_joint_message(message, t) ==
    IF 0 \in message.jkeys
    THEN LET joint_state == from_dict(message, t)
         IN  [data |-> joint_state, timestamp |-> joint_state.timestamp]
    ELSE [data |-> PyList(IF message.has_joints THEN message.joints ELSE <<>>),
          timestamp |-> IF message.has_timestamp THEN message.timestamp ELSE 0]

----------------------------------------------------------------------------
(* MasterNode *)

\* MasterNode.__init__: the attributes it sets from the configuration
MasterInit(cfg) ==
    IF cfg.from_file
    THEN [joint_limits |-> cfg.joint_limits,
          joint_mapping |-> cfg.joint_mapping,
          transformation_matrix |-> cfg.transformation_matrix,
          joint_offsets |-> cfg.joint_offsets]
    ELSE [joint_limits |-> cfg.joint_limits,
          joint_mapping |-> None,
          transformation_matrix |-> None,
          joint_offsets |-> None]

\* process_joint_state as it would be if an error raised messages_blocked twice
process_joint_state_miscount(self, joint_state, t) ==
    LET transformed_joints == transform_joints(joint_state, self.transformation_matrix,
                                               self.joint_mapping, self.joint_offsets, 1, 0)
    IN  IF transformed_joints.kind = "raise"
        THEN [outcome |-> "raise", state |-> joint_state, blocked |-> 2]
        ELSE LET transformed_state == apply_joint_values(joint_state, transformed_joints, t)
             IN  IF transformed_state.kind = "raise"
                 THEN [outcome |-> "raise", state |-> joint_state, blocked |-> 2]
                 ELSE [outcome |-> "JointState", state |-> transformed_state, blocked |-> 0]

\* MasterNode.process_joint_state: what it returns or raises, and its change of
\* messages_blocked.  transform_joints is called with its default gripper_scale=1.0
\* and gripper_offset=0.0.
process_joint_state(self, joint_state, t) ==
    LET transformed_joints == transform_joints(joint_state, self.transformation_matrix,
                                               self.joint_mapping, self.joint_offsets, 1, 0)
    IN  IF transformed_joints.kind = "raise"
        THEN [outcome |-> "raise", state |-> joint_state, blocked |-> 0]
        ELSE LET transformed_state == apply_joint_values(joint_state, transformed_joints, t)
             IN  IF transformed_state.kind = "raise"
                 THEN [outcome |-> "raise", state |-> joint_state, blocked |-> 0]
                 ELSE IF DOMAIN self.joint_limits # {}
                         /\ ~validate_joint_limits(to_list(transformed_state),
                                                   self.joint_limits).valid
                      THEN [outcome |-> "None", state |-> transformed_state, blocked |-> 1]
                      ELSE [outcome |-> "JointState", state |-> transformed_state,
                            blocked |-> 0]

----------------------------------------------------------------------------
(* Configurations, messages and transform arguments the model draws from *)

IdentityMatrix == [i \in 1..NJoints |-> [j \in 1..NJoints |-> IF i = j THEN 1 ELSE 0]]
Diag(d) == [i \in 1..NJoints |-> [j \in 1..NJoints |-> IF i = j THEN d[i] ELSE 0]]
\* joint_1 also feeds joint_0, joint_5 is inverted
CouplingMatrix ==
    [i \in 1..NJoints |-> [j \in 1..NJoints |->
        IF i = 1 /\ j = 2 THEN 1 ELSE IF i = 6 /\ j = 6 THEN -1 ELSE IF i = j THEN 1 ELSE 0]]
FiveRowMatrix == [i \in 1..(NJoints - 1) |-> [j \in 1..NJoints |-> IF i = j THEN 1 ELSE 0]]
FiveColMatrix == [i \in 1..NJoints |-> [j \in 1..(NJoints - 1) |-> IF i = j THEN 1 ELSE 0]]
ExampleMatrix == Diag(<<8, 12, 5, 20, 1, 10>>)
DoubleMatrix == Diag(<<2, 2, 2, 2, 2, 2>>)

IdentityMapping == <<<<0, 0>>, <<1, 1>>, <<2, 2>>, <<3, 3>>, <<4, 4>>, <<5, 5>>>>
SwapMapping == <<<<0, 1>>, <<1, 0>>, <<2, 2>>, <<3, 3>>, <<4, 4>>, <<5, 5>>>>
RotateMapping == <<<<0, 1>>, <<1, 2>>, <<2, 3>>, <<3, 4>>, <<4, 5>>, <<5, 0>>>>

Mappings ==
    { None, Some(<<>>), Some(IdentityMapping), Some(SwapMapping), Some(RotateMapping),
      Some(<<<<0, 2>>, <<1, 0>>>>),                    \* partial
      Some(<<<<0, 3>>, <<1, 3>>, <<2, 0>>>>),          \* two sources, one destination
      Some(<<<<1, 3>>, <<0, 3>>, <<2, 0>>>>),          \* the same, other insertion order
      Some(<<<<0, 6>>, <<7, 1>>, <<2, 2>>>>),          \* indices past the end
      Some(<<<<0, -1>>, <<1, 1>>>>),                   \* negative destination
      Some(<<<<-2, 0>>, <<1, 1>>>>),                   \* negative source
      Some(<<<<-7, 0>>, <<1, 1>>>>) }                  \* negative, past the start

Matrices ==
    { None, Some(IdentityMatrix), Some(ExampleMatrix), Some(CouplingMatrix),
      Some(FiveRowMatrix), Some(FiveColMatrix) }

ZeroOffsets == <<0, 0, 0, 0, 0, 0>>
ExampleOffsets == <<1, -1, 5, -2, 10, 0>>
Offsets == { None, Some(ZeroOffsets), Some(ExampleOffsets), Some(<<1, 2, 3>>) }

BaseVecs == { <<1, 2, 3, 4, 5, 6>>, <<-1, 0, 2, -3, 1, 0>> }
InputVecs == { [i \in 1..NJoints |-> k * b[i]] : k \in 1..MaxAmp, b \in BaseVecs }
Grippers == (-1)..(GripperUnit + 1)
Scales == (-MaxScale)..MaxScale
GripperOffsets == (-(GripperUnit + 1))..(GripperUnit + 1)

TransformArgs(jv, m, p, o, gs, go) ==
    [joint_values |-> jv, transformation_matrix |-> m, joint_mapping |-> p,
     joint_offsets |-> o, gripper_scale |-> gs, gripper_offset |-> go]

\* every joint configuration with the default gripper parameters, and every
\* gripper parameter with the neutral joint configurations
TransformInputs ==
    { TransformArgs(jv, m, p, o, 1, 0) :
        jv \in { PyList(v) : v \in InputVecs }
               \cup { JointState(v, g, 1, 1) : v \in InputVecs, g \in Grippers },
        m \in Matrices, p \in Mappings, o \in Offsets }
    \cup
    { TransformArgs(JointState(<<1, 2, 3, 4, 5, 6>>, g, 1, 1), m, p, o, gs, go) :
        g \in Grippers, m \in {None, Some(IdentityMatrix)},
        p \in {None, Some(IdentityMapping)}, o \in {None, Some(ZeroOffsets)},
        gs \in Scales, go \in GripperOffsets }
    \cup
    { TransformArgs(PyList(v), None, p, None, gs, go) :
        v \in InputVecs, p \in {None, Some(SwapMapping)},
        gs \in Scales, go \in GripperOffsets }

NoLimits == [i \in {} |-> Limit(0, 0)]
ShoulderLimits == [i \in {1} |-> Limit(-1, 1)]
RestrictedLimits == [i \in {1, 4} |-> Limit(-1, 1)]
WideLimits == [i \in 0..(NJoints - 1) |-> Limit(-3, 3)]

\* MasterNode(joint_limits=...) without a config file
ArgConfig(limits) ==
    [from_file |-> FALSE, joint_limits |-> limits, joint_mapping |-> None,
     transformation_matrix |-> None, joint_offsets |-> None,
     gripper_scale |-> None, gripper_offset |-> None]

\* MasterNode(config_path=...): the parsed YAML document
FileConfig(limits, p, m, o, gs, go) ==
    [from_file |-> TRUE, joint_limits |-> limits, joint_mapping |-> p,
     transformation_matrix |-> m, joint_offsets |-> o,
     gripper_scale |-> gs, gripper_offset |-> go]

MasterConfigs ==
    { ArgConfig(ShoulderLimits),
      ArgConfig(NoLimits),
      FileConfig(WideLimits, None, Some(IdentityMatrix), None, Some(2), Some(-1)),
      FileConfig(NoLimits, Some(SwapMapping), None, Some(ExampleOffsets), None, None),
      FileConfig(RestrictedLimits, None, Some(DoubleMatrix), None, Some(1), Some(0)) }

Modern(v, g, ts) == Message(TRUE, 0..(NJoints - 1), v, TRUE, g, TRUE, ts, FALSE, <<>>)
Legacy(v, ts) == Message(TRUE, {}, ZeroOffsets, FALSE, 0, TRUE, ts, TRUE, v)
Undecodable == Message(FALSE, {}, ZeroOffsets, FALSE, 0, FALSE, 0, FALSE, <<>>)

InLimitsVec == <<1, 0, -1, 0, 1, 0>>
EdgeVec == <<0, 1, 0, 0, -1, 0>>
OverVec == <<0, 2, 0, 0, 0, 0>>

InboundMessages ==
    { Modern(InLimitsVec, 1, 1), Modern(EdgeVec, GripperUnit + 1, 2), Modern(OverVec, 1, 1),
      Modern(InLimitsVec, 1, 0),
      Legacy(InLimitsVec, 1), Legacy(OverVec, 2), Legacy(<<1, 0, -1>>, 1),
      Legacy(EdgeVec, 0),
      Message(TRUE, {0, 1, 2, 4, 5}, InLimitsVec, TRUE, 1, TRUE, 1, FALSE, <<>>),
      Message(TRUE, {1, 2, 3, 4, 5}, InLimitsVec, TRUE, 1, TRUE, 1, FALSE, <<>>),
      Undecodable }

----------------------------------------------------------------------------
(* MasterNode.start, stop, close *)

Handled(m, stage, input, result) ==
    Some([msg |-> m, stage |-> stage, input |-> input, result |-> result,
          received_before |-> messages_received,
          published_before |-> messages_published,
          blocked_before |-> messages_blocked,
          sent_before |-> Len(sent),
          at |-> now])

\* start() up to the loop: self.running = True
Start ==
    /\ pc = "idle"
    /\ running' = TRUE
    /\ pc' = "loop"
    /\ UNCHANGED <<config, master, messages_received, messages_published, messages_blocked,
                   closed, sent, now, last, n_taken, n_processed, stop_called,
                   transformVars, apiVars, followerVars>>

\* stop(): self.running = False, from any thread at any time
Stop ==
    /\ ~stop_called
    /\ running' = FALSE
    /\ stop_called' = TRUE
    /\ UNCHANGED <<config, master, messages_received, messages_published, messages_blocked,
                   pc, closed, sent, now, last, n_taken, n_processed,
                   transformVars, apiVars, followerVars>>

\* what becomes of a message whose handling raised
ErrorStages == {"JSONDecodeError", "from_list raised", "process_joint_state raised"}

\* HandleMessage as it would be if the loop had no except clauses: the error leaves
\* the loop and the finally clause calls close()
HandleMessage_uncaught(m) ==
    /\ pc = "loop"
    /\ running
    /\ n_taken < MaxMsgs
    /\ n_taken' = n_taken + 1
    /\ IF ~m.decodable
       THEN \* json.loads raises JSONDecodeError
            /\ last' = Handled(m, "JSONDecodeError", None, None)
            /\ UNCHANGED <<messages_received, messages_published, messages_blocked, sent,
                           n_processed>>
       ELSE LET d == deserialize_joint_message(m, now)
                joint_state == IF d.data.kind = "list"
                               THEN from_list(d.data.joints, 0, Some(d.timestamp), now)
                               ELSE d.data
            IN  /\ messages_received' = messages_received + 1
                /\ IF joint_state.kind = "raise"
                   THEN /\ last' = Handled(m, "from_list raised", None, None)
                        /\ UNCHANGED <<messages_published, messages_blocked, sent,
                                       n_processed>>
                   ELSE LET r == process_joint_state(master, joint_state, now)
                        IN  /\ n_processed' = n_processed + 1
                            /\ messages_blocked' = messages_blocked + r.blocked
                            /\ IF r.outcome = "JointState"
                               THEN /\ sent' = Append(sent, serialize_joint_message(r.state))
                                    /\ messages_published' = messages_published + 1
                                    /\ last' = Handled(m, "published", Some(joint_state),
                                                       Some(r.state))
                               ELSE /\ UNCHANGED <<sent, messages_published>>
                                    /\ last' = Handled(m, IF r.outcome = "None"
                                                          THEN "blocked"
                                                          ELSE "process_joint_state raised",
                                                       Some(joint_state), None)
    /\ pc' = IF last'.val.stage \in ErrorStages THEN "closed" ELSE pc
    /\ closed' = IF last'.val.stage \in ErrorStages THEN closed + 1 ELSE closed
    /\ UNCHANGED <<config, master, running, now, stop_called,
                   transformVars, apiVars, followerVars>>

\* one iteration of the loop in which poll() delivers message m
HandleMessage(m) ==
    /\ pc = "loop"
    /\ running
    /\ n_taken < MaxMsgs
    /\ n_taken' = n_taken + 1
    /\ IF ~m.decodable
       THEN \* json.loads raises JSONDecodeError
            /\ last' = Handled(m, "JSONDecodeError", None, None)
            /\ UNCHANGED <<messages_received, messages_published, messages_blocked, sent,
                           n_processed>>
       ELSE LET d == deserialize_joint_message(m, now)
                joint_state == IF d.data.kind = "list"
                               THEN from_list(d.data.joints, 0, Some(d.timestamp), now)
                               ELSE d.data
            IN  /\ messages_received' = messages_received + 1
                /\ IF joint_state.kind = "raise"
                   THEN /\ last' = Handled(m, "from_list raised", None, None)
                        /\ UNCHANGED <<messages_published, messages_blocked, sent,
                                       n_processed>>
                   ELSE LET r == process_joint_state(master, joint_state, now)
                        IN  /\ n_processed' = n_processed + 1
                            /\ messages_blocked' = messages_blocked + r.blocked
                            /\ IF r.outcome = "JointState"
                               THEN /\ sent' = Append(sent, serialize_joint_message(r.state))
                                    /\ messages_published' = messages_published + 1
                                    /\ last' = Handled(m, "published", Some(joint_state),
                                                       Some(r.state))
                               ELSE /\ UNCHANGED <<sent, messages_published>>
                                    /\ last' = Handled(m, IF r.outcome = "None"
                                                          THEN "blocked"
                                                          ELSE "process_joint_state raised",
                                                       Some(joint_state), None)
    /\ UNCHANGED <<config, master, running, pc, closed, now, stop_called,
                   transformVars, apiVars, followerVars>>

\* "while self.running" is found false: the finally clause calls close()
LoopExit ==
    /\ pc = "loop"
    /\ ~running
    /\ pc' = "closed"
    /\ closed' = closed + 1
    /\ UNCHANGED <<config, master, running, messages_received, messages_published,
                   messages_blocked, sent, now, last, n_taken, n_processed, stop_called,
                   transformVars, apiVars, followerVars>>

\* time passes
Tick ==
    /\ now < MaxClock
    /\ now' = now + 1
    /\ UNCHANGED <<config, master, running, messages_received, messages_published,
                   messages_blocked, pc, closed, sent, last, n_taken, n_processed, stop_called,
                   transformVars, apiVars, followerVars>>

NoCall == [kind |-> "pending"]

\* the holder of FollowerNode.lock when the consumer's thread has it
Consumer == MaxThreads + 1

\* JointState.copy: the constructor again, with the fields of self
copy(self, t) == JointState(self.joints, self.gripper, self.timestamp, t)

\* get_latest_joint_state as it would be if it returned the stored object itself
get_latest_joint_state_alias(heap, latest_joint_state, t) ==
    [heap |-> heap, id |-> latest_joint_state]

\* "self.latest_joint_state.copy() if self.latest_joint_state else None": the new heap
\* and the identity of the object returned, 0 for None
get_latest_joint_state(heap, latest_joint_state, t) ==
    IF latest_joint_state # 0
    THEN [heap |-> Append(heap, copy(heap[latest_joint_state], t)), id |-> Len(heap) + 1]
    ELSE [heap |-> heap, id |-> 0]

\* FollowerNode.__init__; the clock stands at its first value during a follower's run,
\* the timestamps of the records it receives are inputs
FollowerInit ==
    /\ f_running = FALSE
    /\ f_pc = [tid \in 1..MaxThreads |-> "unborn"]
    /\ f_local = [tid \in 1..MaxThreads |-> None]
    /\ f_heap = <<>>
    /\ f_latest = 0
    /\ f_lock = 0
    /\ f_rx = <<>>
    /\ f_get = "idle"
    /\ f_ret = NoCall
    /\ f_gets = 0
    /\ cb_last = None
    /\ cb_calls = <<>>

MasterStart(cfg) ==
    /\ config = cfg
    /\ master = MasterInit(cfg)
    /\ running = FALSE
    /\ messages_received = 0
    /\ messages_published = 0
    /\ messages_blocked = 0
    /\ pc = "idle"
    /\ closed = 0
    /\ sent = <<>>
    /\ now = 1
    /\ last = None
    /\ n_taken = 0
    /\ n_processed = 0
    /\ stop_called = FALSE

Init ==
    /\ \E cfg \in MasterConfigs : MasterStart(cfg)
    /\ t_args = TransformArgs(PyList(ZeroOffsets), None, None, None, 1, 0)
    /\ t_ret = NoCall
    /\ a_call = NoCall
    /\ a_ret = NoCall
    /\ FollowerInit

Next ==
    \/ Start
    \/ Stop
    \/ \E m \in InboundMessages : HandleMessage(m)
    \/ LoopExit
    \/ Tick

Spec == Init /\ [][Next]_vars

\* the thread given start() runs, and an iteration of its loop ends in bounded time
\* (poll has a timeout), so "while self.running" is tested again and again; an
\* iteration in which poll times out with running True changes nothing, it is a
\* stuttering step
SpecLive == Spec /\ WF_vars(Start) /\ WF_vars(LoopExit)

----------------------------------------------------------------------------
(* Direct calls of transform_joints *)

CallTransform ==
    /\ t_ret = NoCall
    /\ t_ret' = transform_joints(t_args.joint_values, t_args.transformation_matrix,
                                 t_args.joint_mapping, t_args.joint_offsets,
                                 t_args.gripper_scale, t_args.gripper_offset)
    /\ UNCHANGED <<t_args, masterVars, apiVars, followerVars>>

InitTransform ==
    /\ MasterStart(ArgConfig(NoLimits))
    /\ t_args \in TransformInputs
    /\ t_ret = NoCall
    /\ a_call = NoCall
    /\ a_ret = NoCall
    /\ FollowerInit

NextTransform == CallTransform

SpecTransform == InitTransform /\ [][NextTransform]_vars

----------------------------------------------------------------------------
(* Properties of the master's processing loop (specification Spec) *)

\* the loop handed its last message to process_joint_state
Processed == last.some /\ last.val.input.some

\* the joints the configured transform gives for the last processed input
LastTransformed ==
    TransformedJoints(last.val.input.val.joints, master.transformation_matrix,
                      master.joint_mapping, master.joint_offsets)

\* the last processed input has a transformed state, inside / outside the limits
LastWithinLimits ==
    /\ Processed
    /\ LastTransformed.kind = "list"
    /\ validate_joint_limits(LastTransformed.joints, master.joint_limits).valid

LastViolatesLimits ==
    /\ Processed
    /\ LastTransformed.kind = "list"
    /\ ~validate_joint_limits(LastTransformed.joints, master.joint_limits).valid

\* clamp(x, 0.0, 1.0), in gripper steps
Clamp01(x) == IF x < 0 THEN 0 ELSE IF x > GripperUnit THEN GripperUnit ELSE x

\* C1: every message published on the follower topic carries joints inside every
\* configured limit; for a message whose transformed state violates a limit,
\* process_joint_state returns None, messages_blocked grows by one and nothing is sent.
C1_ViolatingMessageBlocked ==
    /\ \A k \in 1..Len(sent) :
           validate_joint_limits(sent[k].joint, master.joint_limits).valid
    /\ LastViolatesLimits =>
           /\ last.val.stage = "blocked"
           /\ messages_blocked = last.val.blocked_before + 1
           /\ Len(sent) = last.val.sent_before

\* C2: for a message whose transformed joints satisfy all limits, process_joint_state
\* returns a JointState, exactly one follower message is published for it and
\* messages_published grows by exactly one.
C2_ValidMessagePublished ==
    LastWithinLimits =>
        /\ last.val.stage = "published"
        /\ Len(sent) = last.val.sent_before + 1
        /\ sent[Len(sent)].joint = LastTransformed.joints
        /\ messages_published = last.val.published_before + 1

\* C3: after N messages were processed (each of them handed to process_joint_state),
\* messages_received = N and messages_published + messages_blocked = N.
C3_CounterInvariant ==
    n_taken = n_processed =>
        /\ messages_received = n_processed
        /\ messages_published + messages_blocked = n_processed

\* C4: a master built from a configuration with gripper_scale s and gripper_offset o
\* exposes them as attributes, and the state process_joint_state returns has
\* gripper = clamp(input.gripper * s + o, 0, 1).
C4_ConfiguredGripperApplied ==
    (Processed /\ config.from_file /\ config.gripper_scale.some /\ config.gripper_offset.some
               /\ LastTransformed.kind = "list") =>
        /\ "gripper_scale" \in DOMAIN master
        /\ "gripper_offset" \in DOMAIN master
        /\ last.val.result.some
        /\ last.val.result.val.gripper =
               Clamp01(last.val.input.val.gripper * config.gripper_scale.val
                       + config.gripper_offset.val)

\* C5: the JointState process_joint_state returns for an input has the input's
\* timestamp (the capture time), not the time of processing.
C5_TimestampPreserved ==
    LastWithinLimits =>
        /\ last.val.result.some
        /\ last.val.result.val.timestamp = last.val.input.val.timestamp

----------------------------------------------------------------------------
(* Properties of transform_joints (specification SpecTransform) *)

Returned == t_ret.kind \in {"list", "tuple"}
InputJoints == t_args.joint_values.joints
SixJointInput == Len(InputJoints) = NJoints

\* a mapping entry whose two indices are both in [0, 6)
InRange(e) == e[1] \in 0..(NJoints - 1) /\ e[2] \in 0..(NJoints - 1)
MappingConfigured == t_args.joint_mapping.some /\ t_args.joint_mapping.val # <<>>

\* the mapping stage as specified: six zeros, then output[dst] = input[src] for each
\* in-range entry in order, so that the last entry targeting dst decides
SpecMapped(v, entries) ==
    [d \in 1..NJoints |->
        LET hits == { k \in 1..Len(entries) : InRange(entries[k]) /\ entries[k][2] = d - 1 }
        IN  IF hits = {} THEN 0
            ELSE At(v, entries[CHOOSE k \in hits : \A h \in hits : h <= k][1])]

\* what the matrix and offset stages make of a vector, with no mapping configured
LaterStages(v) ==
    TransformedJoints(v, t_args.transformation_matrix, None, t_args.joint_offsets)

\* C6: for a JointState input the returned gripper is
\* clamp(gripper * scale + offset, 0, 1), scale applied before offset, and so in [0, 1].
C6_GripperClamped ==
    (t_args.joint_values.kind = "JointState" /\ t_ret.kind \notin {"pending", "raise"}) =>
        /\ t_ret.kind = "tuple"
        /\ t_ret.gripper = Clamp01(t_args.joint_values.gripper * t_args.gripper_scale
                                   + t_args.gripper_offset)
        /\ 0 <= t_ret.gripper
        /\ t_ret.gripper <= GripperUnit

\* a call whose scaled and offset gripper lies above 1.0 with a negative scale, clamped
C6_Witness ==
    /\ t_ret.kind = "tuple"
    /\ t_args.gripper_scale < 0
    /\ t_args.joint_values.gripper * t_args.gripper_scale + t_args.gripper_offset > GripperUnit
    /\ t_ret.gripper = GripperUnit

IsPermutation(entries) ==
    /\ Len(entries) = NJoints
    /\ { entries[k][1] : k \in 1..Len(entries) } = 0..(NJoints - 1)
    /\ { entries[k][2] : k \in 1..Len(entries) } = 0..(NJoints - 1)

\* v reordered by the permutation p: the value of source s goes to destination p(s)
Reordered(v, entries) ==
    [d \in 1..NJoints |-> At(v, entries[CHOOSE k \in 1..NJoints : entries[k][2] = d - 1][1])]

FullConfig ==
    /\ SixJointInput
    /\ t_args.joint_mapping.some /\ IsPermutation(t_args.joint_mapping.val)
    /\ t_args.transformation_matrix.some
    /\ Rows(t_args.transformation_matrix.val) = NJoints
    /\ Cols(t_args.transformation_matrix.val) = NJoints
    /\ t_args.joint_offsets.some /\ Len(t_args.joint_offsets.val) = NJoints

\* C7: with a total mapping p, a 6x6 matrix M and length-6 offsets o the returned
\* joints are M * (v reordered by p) + o: mapping, then matrix, then offsets.
C7_StageOrder ==
    (t_ret.kind # "pending" /\ FullConfig) =>
        /\ Returned
        /\ LET r == Reordered(InputJoints, t_args.joint_mapping.val)
               M == t_args.transformation_matrix.val
               o == t_args.joint_offsets.val
           IN  t_ret.joints =
                   [i \in 1..NJoints |->
                       Sum([j \in 1..NJoints |-> M[i][j] * r[j]], NJoints) + o[i]]

\* the documented example, matrix and offsets in tenths:
\* [1,2,3,4,5,6], 0 and 1 swapped, diag(0.8,1.2,0.5,2.0,0.1,1.0), [0.1,-0.1,0.5,-0.2,1.0,0.0]
C7_Witness ==
    /\ InputJoints = <<1, 2, 3, 4, 5, 6>>
    /\ t_args.joint_mapping = Some(SwapMapping)
    /\ t_args.transformation_matrix = Some(ExampleMatrix)
    /\ t_args.joint_offsets = Some(ExampleOffsets)
    /\ Returned
    /\ t_ret.joints = <<17, 11, 20, 78, 15, 60>>

\* C8: with a mapping configured (all indices in [0,6)) the mapping stage starts from
\* six zeros and sets output[dst] = input[src]: untargeted destinations are 0 and the
\* last entry targeting a destination wins.
C8_ZeroFillLastWins ==
    (t_ret.kind # "pending" /\ SixJointInput /\ MappingConfigured
        /\ \A k \in 1..Len(t_args.joint_mapping.val) : InRange(t_args.joint_mapping.val[k])
        /\ LaterStages(SpecMapped(InputJoints, t_args.joint_mapping.val)).kind = "list") =>
        /\ Returned
        /\ t_ret.joints = LaterStages(SpecMapped(InputJoints, t_args.joint_mapping.val)).joints

\* sources 0 and 1 both target destination 3, source 1 inserted last; destination 2 is
\* targeted by nothing although the input's joint 2 is not zero
C8_Witness ==
    /\ t_args.joint_mapping = Some(<<<<0, 3>>, <<1, 3>>, <<2, 0>>>>)
    /\ t_args.transformation_matrix = None
    /\ t_args.joint_offsets = None
    /\ Returned
    /\ At(InputJoints, 2) # 0
    /\ At(InputJoints, 0) # At(InputJoints, 1)
    /\ At(t_ret.joints, 2) = 0
    /\ At(t_ret.joints, 3) = At(InputJoints, 1)

\* C9: a mapping entry with either index outside [0,6), a negative index included, is
\* ignored: it changes no output element and raises no error.
C9_OutOfRangeIgnored ==
    (t_ret.kind # "pending" /\ SixJointInput /\ MappingConfigured
        /\ LaterStages(SpecMapped(InputJoints, t_args.joint_mapping.val)).kind = "list") =>
        /\ Returned
        /\ t_ret.joints = LaterStages(SpecMapped(InputJoints, t_args.joint_mapping.val)).joints

NeutralConfig ==
    /\ t_args.joint_mapping \in {None, Some(<<>>), Some(IdentityMapping)}
    /\ t_args.transformation_matrix \in {None, Some(IdentityMatrix)}
    /\ t_args.joint_offsets \in {None, Some(ZeroOffsets)}
    /\ t_args.gripper_scale = 1
    /\ t_args.gripper_offset = 0

\* C10: a neutral configuration (nothing configured, or identity mapping, identity
\* matrix, zero offsets, scale 1.0, offset 0.0) returns exactly (x.joints, x.gripper)
\* for every JointState x.
C10_NeutralIsIdentity ==
    (t_ret.kind # "pending" /\ t_args.joint_values.kind = "JointState" /\ NeutralConfig) =>
        t_ret = PyTuple(t_args.joint_values.joints, t_args.joint_values.gripper)

\* C10 as amended: a neutral configuration returns (x.joints, clamp(x.gripper, 0, 1)),
\* which is (x.joints, x.gripper) exactly when x.gripper is in [0, 1].
C10_NeutralIsIdentityUpToClamp ==
    (t_ret.kind # "pending" /\ t_args.joint_values.kind = "JointState" /\ NeutralConfig) =>
        /\ t_ret = PyTuple(t_args.joint_values.joints, Clamp01(t_args.joint_values.gripper))
        /\ (t_ret.gripper = t_args.joint_values.gripper
               <=> (0 <= t_args.joint_values.gripper
                    /\ t_args.joint_values.gripper <= GripperUnit))

\* the identity mapping, matrix and offsets applied to a state whose gripper is above 1.0
C10_Witness ==
    /\ t_args.joint_values.kind = "JointState"
    /\ t_args.joint_mapping = Some(IdentityMapping)
    /\ t_args.transformation_matrix = Some(IdentityMatrix)
    /\ t_args.joint_offsets = Some(ZeroOffsets)
    /\ t_args.gripper_scale = 1 /\ t_args.gripper_offset = 0
    /\ t_args.joint_values.gripper > GripperUnit
    /\ t_ret.kind = "tuple"
    /\ t_ret.joints = t_args.joint_values.joints
    /\ t_ret.gripper = GripperUnit

----------------------------------------------------------------------------
(* Direct calls of validate_joint_limits, the JointState functions and the
   message (de)serialisation *)

\* LeaderNode.publish_joints(joint_state, timestamp=...): js.timestamp = timestamp
set_timestamp(js, timestamp) == [js EXCEPT !.timestamp = timestamp]

\* entries that leave out 'min' or 'max'
PartialLimits ==
    [i \in {0, 2} |-> IF i = 0 THEN [min |-> None, max |-> Some(1)]
                               ELSE [min |-> Some(-1), max |-> None]]
LimitTables == { NoLimits, ShoulderLimits, RestrictedLimits, WideLimits, PartialLimits }

ValidateVecs ==
    InputVecs \cup { InLimitsVec, EdgeVec, OverVec, <<0, 2, 0, 0, -2, 0>>,
                     <<4, -4, 3, -3, 0, 2>>, <<-3, 3, -4, 4, 1, -1>>,
                     <<-4, 0, 4, 0, 0, 0>>, <<-3, 0, 3, 0, 0, 0>> }

\* lists of 0 to 7 values
ValueLists == { [i \in 1..n |-> k * i - 3] : n \in 0..(NJoints + 1), k \in 1..MaxAmp }

\* states as the constructor builds them at time 1, and the same after the leader
\* has been asked to publish them with timestamp 0.0
BuiltStates == { JointState(v, g, ts, 1) : v \in InputVecs, g \in Grippers, ts \in 0..MaxClock }
HeldStates == BuiltStates \cup { set_timestamp(js, 0) : js \in BuiltStates }

ApiCalls ==
    { [fn |-> "validate_joint_limits", joint_values |-> jv, joint_limits |-> lim] :
        jv \in { PyList(v) : v \in ValidateVecs }
               \cup { JointState(v, 1, 1, 1) : v \in ValidateVecs },
        lim \in LimitTables }
    \cup
    { [fn |-> "from_list", joint_values |-> l, gripper |-> g, timestamp |-> ts] :
        l \in ValueLists, g \in {0, 1}, ts \in {None, Some(0), Some(2)} }
    \cup
    { [fn |-> "apply_joint_values", self |-> JointState(v, g, 2, 1), joint_values |-> x] :
        v \in InputVecs, g \in {0, 1, GripperUnit + 1},
        x \in { PyList(l) : l \in ValueLists } \cup { PyTuple(w, 1) : w \in InputVecs } }
    \cup
    { [fn |-> f, joint_state |-> js] :
        f \in {"message_roundtrip", "dict_roundtrip"}, js \in HeldStates }

\* validate_joint_limits(joint_values, joint_limits), a list or a JointState given
CallValidate ==
    /\ a_call.kind # "pending" /\ a_call.fn = "validate_joint_limits"
    /\ a_ret = NoCall
    /\ a_ret' = validate_joint_limits(
                    IF a_call.joint_values.kind = "JointState"
                    THEN to_list(a_call.joint_values) ELSE a_call.joint_values.joints,
                    a_call.joint_limits)
    /\ UNCHANGED <<a_call, masterVars, transformVars, followerVars>>

\* JointState.from_list(joint_values, gripper, timestamp)
CallFromList ==
    /\ a_call.kind # "pending" /\ a_call.fn = "from_list"
    /\ a_ret = NoCall
    /\ a_ret' = from_list(a_call.joint_values, a_call.gripper, a_call.timestamp, now)
    /\ UNCHANGED <<a_call, masterVars, transformVars, followerVars>>

\* self.apply_joint_values(joint_values)
CallApplyJointValues ==
    /\ a_call.kind # "pending" /\ a_call.fn = "apply_joint_values"
    /\ a_ret = NoCall
    /\ a_ret' = apply_joint_values(a_call.self, a_call.joint_values, now)
    /\ UNCHANGED <<a_call, masterVars, transformVars, followerVars>>

\* deserialize_joint_message(serialize_joint_message(joint_state))
CallMessageRoundTrip ==
    /\ a_call.kind # "pending" /\ a_call.fn = "message_roundtrip"
    /\ a_ret = NoCall
    /\ a_ret' = deserialize_joint_message(serialize_joint_message(a_call.joint_state), now)
    /\ UNCHANGED <<a_call, masterVars, transformVars, followerVars>>

\* JointState.from_dict(joint_state.to_dict())
CallDictRoundTrip ==
    /\ a_call.kind # "pending" /\ a_call.fn = "dict_roundtrip"
    /\ a_ret = NoCall
    /\ a_ret' = from_dict(to_dict(a_call.joint_state), now)
    /\ UNCHANGED <<a_call, masterVars, transformVars, followerVars>>

InitApi ==
    /\ MasterStart(ArgConfig(NoLimits))
    /\ t_args = TransformArgs(PyList(ZeroOffsets), None, None, None, 1, 0)
    /\ t_ret = NoCall
    /\ a_call \in { [kind |-> "call"] @@ c : c \in ApiCalls }
    /\ a_ret = NoCall
    /\ FollowerInit

NextApi ==
    \/ CallValidate
    \/ CallFromList
    \/ CallApplyJointValues
    \/ CallMessageRoundTrip
    \/ CallDictRoundTrip
    \/ Tick

SpecApi == InitApi /\ [][NextApi]_vars

----------------------------------------------------------------------------
(* Properties of validate_joint_limits and the JointState functions, SpecApi *)

Called(fn) == a_call.kind # "pending" /\ a_call.fn = fn /\ a_ret # NoCall

\* the six values a validate_joint_limits call was given
CheckedValues == a_call.joint_values.joints

\* every entry of the table names both 'min' and 'max'
BothBounds(joint_limits) ==
    \A i \in DOMAIN joint_limits : joint_limits[i].min.some /\ joint_limits[i].max.some

\* the indices the limit table puts outside [min, max]
Outside(v, joint_limits) ==
    { i \in 0..(NJoints - 1) :
        /\ i \in DOMAIN joint_limits
        /\ ~ (joint_limits[i].min.val <= At(v, i) /\ At(v, i) <= joint_limits[i].max.val) }

\* C11: validate_joint_limits returns (ok, violations) with exactly one entry, naming
\* joint_i, per index i in 0..5 that is in the table and whose value is < min or > max,
\* in ascending order; a value on a limit is no violation, a joint absent from the table
\* never produces one, and ok is true iff violations is empty.
C11_ViolationsExact ==
    (Called("validate_joint_limits") /\ BothBounds(a_call.joint_limits)) =>
        LET viol == a_ret.violations
            out == Outside(CheckedValues, a_call.joint_limits)
        IN  /\ { viol[k].joint : k \in 1..Len(viol) } = out
            /\ Len(viol) = Cardinality(out)
            /\ \A k \in 1..(Len(viol) - 1) : viol[k].joint < viol[k + 1].joint
            /\ \A k \in 1..Len(viol) : viol[k].joint \in DOMAIN a_call.joint_limits
            /\ a_ret.valid <=> (viol = <<>>)

\* a table for all six joints and values of which two are outside, two on a limit and
\* two inside: the two violations come out in ascending order
C11_Witness ==
    /\ Called("validate_joint_limits")
    /\ a_call.joint_limits = WideLimits
    /\ CheckedValues = <<4, -4, 3, -3, 0, 2>>
    /\ ~ a_ret.valid
    /\ Len(a_ret.violations) = 2
    /\ a_ret.violations[1].joint = 0 /\ a_ret.violations[2].joint = 1

----------------------------------------------------------------------------
(* Properties of transform_joints with a configuration of the wrong shape,
   SpecTransform *)

\* what the mapping and matrix stages make of the input of the call
BeforeOffsets ==
    LET mapped == MappingStage(InputJoints, t_args.joint_mapping)
    IN  IF mapped.ok THEN MatrixStage(mapped.arr, t_args.transformation_matrix)
        ELSE mapped

\* C12: offsets configured with a length other than 6 are skipped without raising: the
\* returned joints are the result of the mapping and matrix stages, unchanged.
C12_ShortOffsetsSkipped ==
    (t_ret.kind # "pending" /\ SixJointInput
        /\ t_args.joint_offsets.some /\ Len(t_args.joint_offsets.val) # NJoints
        /\ BeforeOffsets.ok) =>
        /\ Returned
        /\ t_ret.joints = BeforeOffsets.arr

\* three offsets after a swap of joints 0 and 1 and the example matrix
C12_Witness ==
    /\ InputJoints = <<1, 2, 3, 4, 5, 6>>
    /\ t_args.joint_mapping = Some(SwapMapping)
    /\ t_args.transformation_matrix = Some(ExampleMatrix)
    /\ t_args.joint_offsets = Some(<<1, 2, 3>>)
    /\ Returned
    /\ t_ret.joints = <<16, 12, 15, 80, 5, 60>>

\* C13: a matrix whose row count is not 6 is skipped without raising: the output of
\* the mapping stage goes unchanged into the offset stage and processing continues.
C13_WrongRowCountSkipped ==
    (t_ret.kind # "pending" /\ SixJointInput
        /\ t_args.transformation_matrix.some
        /\ Rows(t_args.transformation_matrix.val) # NJoints
        /\ MappingStage(InputJoints, t_args.joint_mapping).ok) =>
        /\ Returned
        /\ t_ret.joints = OffsetStage(MappingStage(InputJoints, t_args.joint_mapping).arr,
                                      t_args.joint_offsets)

\* a matrix of five rows after a swap of joints 0 and 1, the example offsets added
C13_Witness ==
    /\ InputJoints = <<1, 2, 3, 4, 5, 6>>
    /\ t_args.joint_mapping = Some(SwapMapping)
    /\ t_args.transformation_matrix = Some(FiveRowMatrix)
    /\ t_args.joint_offsets = Some(ExampleOffsets)
    /\ Returned
    /\ t_ret.joints = <<3, 0, 8, 2, 15, 6>>

----------------------------------------------------------------------------
(* Properties of the master about the limit table and the shape of the records it
   receives, Spec *)

\* C14: with an empty or absent limit table the master never blocks: validation of the
\* transformed joints against the empty table gives (True, []), messages_blocked stays
\* 0 over any sequence of messages and process_joint_state never returns None.
C14_NoLimitsNeverBlocks ==
    (DOMAIN master.joint_limits = {}) =>
        /\ messages_blocked = 0
        /\ last.some => last.val.stage # "blocked"
        /\ (Processed /\ LastTransformed.kind = "list") =>
               validate_joint_limits(LastTransformed.joints, master.joint_limits)
                   = [valid |-> TRUE, violations |-> <<>>]

\* a master without limits has taken three messages, the last one processed with a
\* joint at 2 rad, and has blocked none
C14_Witness ==
    /\ DOMAIN master.joint_limits = {}
    /\ messages_received = MaxMsgs
    /\ Processed
    /\ last.val.input.val.joints = OverVec
    /\ LastTransformed.kind = "list"
    /\ messages_blocked = 0

\* the record names all of joint_0..joint_5, or is a legacy record of six joints
CarriesSixJoints(m) ==
    IF 0 \in m.jkeys THEN m.jkeys = 0..(NJoints - 1)
    ELSE m.jkeys = {} /\ m.has_joints /\ Len(m.joints) = NJoints

\* C16: a received record that does not carry exactly six joint values is rejected with
\* a validation error when the JointState is constructed and never enters the
\* transform-and-validate pipeline.
C16_MalformedRejected ==
    (last.some /\ last.val.msg.decodable /\ ~CarriesSixJoints(last.val.msg)) =>
        /\ last.val.stage = "from_list raised"
        /\ last.val.input = None

LegacySix(m) ==
    m.decodable /\ m.jkeys = {} /\ m.has_joints /\ Len(m.joints) = NJoints /\ m.has_timestamp

\* C18: a legacy message {joints: six values, timestamp: t} is accepted and enters the
\* pipeline as the JointState with those joints, gripper 0.0 and timestamp t.
C18_LegacyNormalised ==
    (last.some /\ LegacySix(last.val.msg)) =>
        /\ last.val.input.some
        /\ last.val.input.val.joints = last.val.msg.joints
        /\ last.val.input.val.gripper = 0
        /\ last.val.input.val.timestamp = last.val.msg.timestamp

----------------------------------------------------------------------------
(* Properties of the JointState constructors and of serialisation, SpecApi *)

\* the sequence a from_list or apply_joint_values call was given, and its length
GivenLength ==
    IF a_call.fn = "from_list" THEN Len(a_call.joint_values) ELSE PyLen(a_call.joint_values)
GivenValues ==
    IF a_call.fn = "from_list" THEN a_call.joint_values ELSE a_call.joint_values.joints

\* C15: from_list and apply_joint_values raise ValueError for every sequence whose
\* length is not 6 and create no JointState; for a sequence of length 6 they return a
\* state whose to_list() equals the given values.
C15_SixOrValueError ==
    (Called("from_list") \/ Called("apply_joint_values")) =>
        IF GivenLength # NJoints
        THEN a_ret = Raise("ValueError")
        ELSE /\ a_ret.kind = "JointState"
             /\ to_list(a_ret) = GivenValues
             /\ Len(to_list(a_ret)) = NJoints

\* from_list has refused a list of seven values
C15_Witness ==
    /\ Called("from_list")
    /\ Len(a_call.joint_values) = NJoints + 1
    /\ a_ret = Raise("ValueError")

\* the state a round trip was made with
Original == a_call.joint_state

\* C17: for every JointState s, every timestamp value included, deserialising the
\* serialised s gives a JointState with the joints, gripper and timestamp of s and
\* returns s.timestamp; the same holds for from_dict(s.to_dict()).
C17_RoundTrip ==
    /\ Called("message_roundtrip") =>
           /\ a_ret.data.kind = "JointState"
           /\ a_ret.data.joints = Original.joints
           /\ a_ret.data.gripper = Original.gripper
           /\ a_ret.data.timestamp = Original.timestamp
           /\ a_ret.timestamp = Original.timestamp
    /\ Called("dict_roundtrip") =>
           /\ a_ret.joints = Original.joints
           /\ a_ret.gripper = Original.gripper
           /\ a_ret.timestamp = Original.timestamp

----------------------------------------------------------------------------
(* FollowerNode: start, stop, the receive threads and a consumer *)

FollowerMessages ==
    { Modern(InLimitsVec, 1, 1), Modern(EdgeVec, 1, 0), Legacy(EdgeVec, 2), Undecodable }

\* start(): "if not self.running", then a new receive thread
FollowerStart ==
    /\ ~f_running
    /\ \E tid \in 1..MaxThreads :
        /\ f_pc[tid] = "unborn"
        /\ \A u \in 1..(tid - 1) : f_pc[u] # "unborn"
        /\ f_pc' = [f_pc EXCEPT ![tid] = "loop"]
    /\ f_running' = TRUE
    /\ UNCHANGED <<f_local, f_heap, f_latest, f_lock, f_rx, f_get, f_ret, f_gets,
                   cbVars, masterVars, transformVars, apiVars>>

\* stop(): self.running = False; the join gives up after a second
FollowerStop ==
    /\ f_running
    /\ f_running' = FALSE
    /\ UNCHANGED <<f_pc, f_local, f_heap, f_latest, f_lock, f_rx, f_get, f_ret, f_gets,
                   cbVars, masterVars, transformVars, apiVars>>

\* _receive_loop: "while self.running" is found false
ReceiveExit(tid) ==
    /\ f_pc[tid] = "loop"
    /\ ~f_running
    /\ f_pc' = [f_pc EXCEPT ![tid] = "exited"]
    /\ UNCHANGED <<f_running, f_local, f_heap, f_latest, f_lock, f_rx, f_get, f_ret, f_gets,
                   cbVars, masterVars, transformVars, apiVars>>

\* _receive_loop: one iteration in which poll() delivers m, up to "with self.lock"
Receive(tid, m) ==
    /\ f_pc[tid] = "loop"
    /\ f_running
    /\ Len(f_rx) < MaxRecv
    /\ IF ~m.decodable
       THEN \* JSONDecodeError, logged
            /\ f_rx' = Append(f_rx, [msg |-> m, state |-> None])
            /\ UNCHANGED <<f_pc, f_local>>
       ELSE LET d == deserialize_joint_message(m, now)
                joint_state == IF d.data.kind = "list"
                               THEN from_list(d.data.joints, 0, Some(d.timestamp), now)
                               ELSE d.data
            IN  IF joint_state.kind = "raise"
                THEN \* ValueError, logged
                     /\ f_rx' = Append(f_rx, [msg |-> m, state |-> None])
                     /\ UNCHANGED <<f_pc, f_local>>
                ELSE /\ f_rx' = Append(f_rx, [msg |-> m, state |-> Some(joint_state)])
                     /\ f_local' = [f_local EXCEPT ![tid] = Some(joint_state)]
                     /\ f_pc' = [f_pc EXCEPT ![tid] = "store"]
    /\ UNCHANGED <<f_running, f_heap, f_latest, f_lock, f_get, f_ret, f_gets,
                   cbVars, masterVars, transformVars, apiVars>>

\* _receive_loop: "with self.lock" entered
ReceiveLock(tid) ==
    /\ f_pc[tid] = "store"
    /\ f_lock = 0
    /\ f_lock' = tid
    /\ f_pc' = [f_pc EXCEPT ![tid] = "locked"]
    /\ UNCHANGED <<f_running, f_local, f_heap, f_latest, f_rx, f_get, f_ret, f_gets,
                   cbVars, masterVars, transformVars, apiVars>>

\* _receive_loop: self.latest_joint_state = joint_state, and the lock released
ReceiveStore(tid) ==
    /\ f_pc[tid] = "locked"
    /\ f_heap' = Append(f_heap, f_local[tid].val)
    /\ f_latest' = Len(f_heap) + 1
    /\ f_lock' = 0
    /\ f_local' = [f_local EXCEPT ![tid] = None]
    /\ f_pc' = [f_pc EXCEPT ![tid] = "loop"]
    /\ UNCHANGED <<f_running, f_rx, f_get, f_ret, f_gets,
                   cbVars, masterVars, transformVars, apiVars>>

\* get_latest_joint_state: "with self.lock" entered
GetLock ==
    /\ f_get = "idle"
    /\ f_gets < MaxGets
    /\ f_lock = 0
    /\ f_lock' = Consumer
    /\ f_get' = "locked"
    /\ f_gets' = f_gets + 1
    /\ UNCHANGED <<f_running, f_pc, f_local, f_heap, f_latest, f_rx, f_ret,
                   cbVars, masterVars, transformVars, apiVars>>

\* get_latest_joint_state: the return statement, and the lock released
GetReturn ==
    /\ f_get = "locked"
    /\ LET r == get_latest_joint_state(f_heap, f_latest, now)
       IN  /\ f_heap' = r.heap
           /\ f_ret' = [kind |-> "returned", id |-> r.id,
                        val |-> IF r.id = 0 THEN None ELSE Some(r.heap[r.id])]
    /\ f_lock' = 0
    /\ f_get' = "idle"
    /\ UNCHANGED <<f_running, f_pc, f_local, f_latest, f_rx, f_gets,
                   cbVars, masterVars, transformVars, apiVars>>

\* the consumer writes to a field of the object it was returned
Mutate ==
    /\ f_ret.kind = "returned"
    /\ f_ret.id # 0
    /\ f_heap[f_ret.id] = f_ret.val.val
    /\ \E field \in {"joints", "timestamp"} :
        f_heap' = [f_heap EXCEPT ![f_ret.id] =
                      CASE field = "joints" -> [@ EXCEPT !.joints = [@ EXCEPT ![1] = @ + 1]]
                        [] field = "timestamp" -> [@ EXCEPT !.timestamp = @ + 1]]
    /\ UNCHANGED <<f_running, f_pc, f_local, f_latest, f_lock, f_rx, f_get, f_ret, f_gets,
                   cbVars, masterVars, transformVars, apiVars>>

\* subscribe_with_callback: one turn of its loop, from get_latest_joint_state to the
\* callback; a turn that finds nothing new changes nothing
CallbackPoll ==
    /\ f_lock = 0
    /\ LET r == get_latest_joint_state(f_heap, f_latest, now)
       IN  /\ r.id # 0
           /\ Some(r.heap[r.id].timestamp) # cb_last
           /\ cb_calls' = Append(cb_calls, r.heap[r.id])
           /\ cb_last' = Some(r.heap[r.id].timestamp)
    /\ UNCHANGED <<f_running, f_pc, f_local, f_heap, f_latest, f_lock, f_rx, f_get, f_ret,
                   f_gets, masterVars, transformVars, apiVars>>

InitFollower ==
    /\ MasterStart(ArgConfig(NoLimits))
    /\ t_args = TransformArgs(PyList(ZeroOffsets), None, None, None, 1, 0)
    /\ t_ret = NoCall
    /\ a_call = NoCall
    /\ a_ret = NoCall
    /\ FollowerInit

NextFollower ==
    \/ FollowerStart
    \/ FollowerStop
    \/ \E tid \in 1..MaxThreads : ReceiveExit(tid)
    \/ \E tid \in 1..MaxThreads, m \in FollowerMessages : Receive(tid, m)
    \/ \E tid \in 1..MaxThreads : ReceiveLock(tid)
    \/ \E tid \in 1..MaxThreads : ReceiveStore(tid)
    \/ GetLock
    \/ GetReturn
    \/ Mutate
    \/ CallbackPoll

SpecFollower == InitFollower /\ [][NextFollower]_vars

----------------------------------------------------------------------------
(* Properties of FollowerNode.get_latest_joint_state, SpecFollower *)

\* the joints, gripper and timestamp a received record states
Stated(m) ==
    IF 0 \in m.jkeys
    THEN [joints |-> m.joint, gripper |-> m.gripper, timestamp |-> m.timestamp]
    ELSE [joints |-> m.joints, gripper |-> 0, timestamp |-> m.timestamp]

Fields(js) == [joints |-> js.joints, gripper |-> js.gripper, timestamp |-> js.timestamp]

\* the JointStates the receive threads have built so far
Built == { f_rx[k].state.val : k \in { j \in 1..Len(f_rx) : f_rx[j].state.some } }

GotState == f_ret.kind = "returned" /\ f_ret.id # 0

\* C20: get_latest_joint_state returns a new JointState object whose six joints, gripper
\* and timestamp all equal those of one single received message; mutating the returned
\* object never changes what later calls return.
C20_CopyOfOneMessage ==
    /\ GotState =>
           /\ f_ret.id # f_latest
           /\ \E k \in 1..Len(f_rx) :
                  /\ f_rx[k].state.some
                  /\ Fields(f_ret.val.val) = Stated(f_rx[k].msg)
    /\ f_latest # 0 => f_heap[f_latest] \in Built

\* what holds of the code: the object returned is new and has, at its return, the
\* fields of one JointState a receive thread built and stored; the stored object is
\* never changed through a returned one
FollowerCopyIsolated ==
    /\ GotState => (f_ret.id # f_latest /\ f_ret.val.val \in Built)
    /\ f_latest # 0 => f_heap[f_latest] \in Built
    /\ f_lock = Consumer <=> f_get = "locked"

----------------------------------------------------------------------------
(* Properties of apply_joint_values and of limits without 'min' or 'max', SpecApi *)

AppliedSix == Called("apply_joint_values") /\ PyLen(a_call.joint_values) = NJoints

\* the step in which apply_joint_values returns for six values
ApplyReturns == a_ret = NoCall /\ AppliedSix'

\* C21: apply_joint_values(v) with six values returns an instance whose joints are v,
\* whose gripper is the receiver's and whose timestamp is refreshed to the current
\* time, later than the receiver's.
C21_RefreshedLater ==
    [][ApplyReturns =>
        /\ a_ret'.kind = "JointState"
        /\ a_ret'.joints = a_call.joint_values.joints
        /\ a_ret'.gripper = a_call.self.gripper
        /\ a_ret'.timestamp = now
        /\ a_ret'.timestamp > a_call.self.timestamp]_vars

\* C21 as amended: the timestamp is the current time of the call, which is later than
\* the receiver's exactly when the receiver's timestamp is before the current time.
C21_RefreshedToNow ==
    [][ApplyReturns =>
        /\ a_ret'.kind = "JointState"
        /\ a_ret'.joints = a_call.joint_values.joints
        /\ a_ret'.gripper = a_call.self.gripper
        /\ a_ret'.timestamp = now
        /\ (a_ret'.timestamp > a_call.self.timestamp) <=> (a_call.self.timestamp < now)]_vars

\* a receiver stamped 2 (by a sender whose clock is ahead) is given six new values at
\* time 1: the result carries time 1 and the receiver's gripper
C21_Witness ==
    /\ AppliedSix
    /\ a_call.self.timestamp = 2
    /\ a_call.self.gripper = GripperUnit + 1
    /\ a_call.joint_values.joints # a_call.self.joints
    /\ a_ret.kind = "JointState"
    /\ a_ret.timestamp = 1
    /\ a_ret.gripper = GripperUnit + 1
    /\ a_ret.joints = a_call.joint_values.joints


\* joint i is named by a violation of the result
Reported(i) == \E k \in 1..Len(a_ret.violations) : a_ret.violations[k].joint = i

\* C30: for an entry that lacks 'min' (respectively 'max') validate_joint_limits uses
\* -pi (respectively +pi) as the missing bound: a value beyond that default is reported
\* although the table states no such bound, and a value within it passes.
C30_DefaultBounds ==
    Called("validate_joint_limits") =>
        \A i \in DOMAIN a_call.joint_limits :
            LET entry == a_call.joint_limits[i]
                value == At(CheckedValues, i)
                lo == IF entry.min.some THEN entry.min.val ELSE -PiFloor
                hi == IF entry.max.some THEN entry.max.val ELSE PiFloor
            IN  (~entry.min.some \/ ~entry.max.some) =>
                    (Reported(i) <=> (value < lo \/ value > hi))

\* joint_0 has only 'max' and is at -4, below -pi; joint_2 has only 'min' and is at 4,
\* above pi: both are reported
C30_Witness ==
    /\ Called("validate_joint_limits")
    /\ a_call.joint_limits = PartialLimits
    /\ CheckedValues = <<-4, 0, 4, 0, 0, 0>>
    /\ Reported(0) /\ Reported(2)
    /\ Len(a_ret.violations) = 2
    /\ ~a_ret.valid

----------------------------------------------------------------------------
(* Properties of the shape of what transform_joints returns, SpecTransform *)

\* the joints the three joint stages give for the input of the call, or the error
JointPart ==
    TransformedJoints(InputJoints, t_args.transformation_matrix, t_args.joint_mapping,
                      t_args.joint_offsets)

\* C22: the shape of the result depends only on the type of the input: a list input
\* gives a plain list of joints, gripper_scale and gripper_offset ignored; a JointState
\* input gives (joints, transformed gripper) with the joints the list x.to_list() gives
\* under the same configuration.
C22_ShapeFollowsInput ==
    (t_ret.kind # "pending" /\ JointPart.kind = "list") =>
        IF t_args.joint_values.kind = "list"
        THEN t_ret = PyList(JointPart.joints)
        ELSE /\ t_ret.kind = "tuple"
             /\ t_ret.joints = JointPart.joints
             /\ t_ret.gripper = Clamp01(t_args.joint_values.gripper * t_args.gripper_scale
                                        + t_args.gripper_offset)

\* a list transformed with gripper_scale 2 and gripper_offset 1 comes back as a list
C22_Witness ==
    /\ t_args.joint_values.kind = "list"
    /\ t_args.gripper_scale = MaxScale
    /\ t_args.gripper_offset = 1
    /\ t_args.joint_mapping = Some(SwapMapping)
    /\ t_ret.kind = "list"
    /\ At(t_ret.joints, 0) = At(InputJoints, 1)

\* C29: for a 6-joint input transform_joints returns exactly 6 joint values and raises
\* no error for every configuration: any mapping, any matrix whatever its row and
\* column counts, any offsets length.
C29_AlwaysSixNoError ==
    (t_ret.kind # "pending" /\ SixJointInput) =>
        /\ Returned
        /\ Len(t_ret.joints) = NJoints

----------------------------------------------------------------------------
(* Properties of the master's loop: errors, counters and stopping, Spec and SpecLive *)

\* C27: once stop() has been called on a MasterNode whose start() is running or about
\* to run in another thread, the loop eventually exits and close() runs exactly once,
\* for every interleaving, stop() before start() has set running to True included.
C27_StopEndsLoop ==
    /\ stop_called ~> (pc = "closed" /\ closed = 1)
    /\ [](closed <= 1)

\* the step in which the loop ends its handling of a message with an error
ErrorStep == n_taken' = n_taken + 1 /\ last'.val.stage \in ErrorStages

\* C25: an error while start() handles one message (undecodable JSON, a wrong joint
\* count, an exception of process_joint_state) is caught inside the loop: running stays
\* true, the counters keep the values reached so far, nothing is published for that
\* message, and the loop is at its top again for the next message.
C25_ErrorsCaught ==
    [][ErrorStep =>
        /\ running /\ running'
        /\ pc' = "loop"
        /\ closed' = closed
        /\ sent' = sent
        /\ messages_published' = messages_published
        /\ messages_blocked' = messages_blocked
        /\ messages_received' = IF last'.val.stage = "JSONDecodeError"
                                THEN messages_received ELSE messages_received + 1]_vars

\* after an undecodable message and a record of three joints the loop is still running
\* and has handed a third, well-formed message to process_joint_state
C25_Witness ==
    /\ n_taken = 3
    /\ messages_received = 2
    /\ n_processed = 1
    /\ last.some /\ last.val.stage = "process_joint_state raised"
    /\ last.val.received_before = 1
    /\ running /\ pc = "loop" /\ closed = 0

\* C26: messages_published + messages_blocked <= messages_received in every reachable
\* state, no counter ever decreases, and each received message raises at most one of
\* messages_published and messages_blocked, by exactly one.
C26_CountersBounded ==
    /\ [](messages_published + messages_blocked <= messages_received)
    /\ [][/\ messages_received' >= messages_received
          /\ messages_published' >= messages_published
          /\ messages_blocked' >= messages_blocked
          /\ (messages_published' - messages_published)
                 + (messages_blocked' - messages_blocked) <= 1
          /\ (messages_published' + messages_blocked'
                 > messages_published + messages_blocked)
                 => messages_received' = messages_received + 1]_vars

\* three messages were received and handed to process_joint_state
C26_Witness ==
    /\ messages_received = MaxMsgs
    /\ n_processed = MaxMsgs
    /\ messages_published + messages_blocked <= messages_received

----------------------------------------------------------------------------
(* Properties of the follower's latest state, its callback and its threads,
   SpecFollower *)

\* the records from which a JointState was built, by position in the order of reception
Decoded == { k \in 1..Len(f_rx) : f_rx[k].state.some }

\* the states receive threads hold and have not stored yet
InFlight == { f_local[tid].val : tid \in { u \in 1..MaxThreads : f_local[u].some } }

\* the most recently received record, or an earlier one while all later ones are
\* still on their way into latest_joint_state
Newest == { k \in Decoded : \A j \in Decoded : j > k => f_rx[j].state.val \in InFlight }

\* the step in which get_latest_joint_state returns
GetReturns == f_get = "locked" /\ f_get' = "idle"

\* C23: get_latest_joint_state returns None until the receive loop has stored a first
\* message and afterwards always the values of the most recently received message,
\* never None again and never those of an older message.
C23_LatestReturned ==
    [][GetReturns =>
        IF f_latest = 0
        THEN f_ret'.id = 0
        ELSE /\ f_ret'.id # 0
             /\ \E k \in Newest : Fields(f_ret'.val.val) = Stated(f_rx[k].msg)]_vars

\* the same with the JointState built from a record in place of the record's fields
LatestIsNewestBuilt ==
    [][GetReturns =>
        IF f_latest = 0
        THEN f_ret'.id = 0
        ELSE /\ f_ret'.id # 0
             /\ \E k \in Newest : f_ret'.val.val = f_rx[k].state.val]_vars

HasState(e) == e.state.some

\* C24: the callback of subscribe_with_callback is called for each message the follower
\* receives, exactly once and in the order of reception: at every moment the calls made
\* are the first of the received messages, none left out.
C24_EveryMessageOnce ==
    LET rx == SelectSeq(f_rx, HasState)
    IN  /\ Len(cb_calls) <= Len(rx)
        /\ \A i \in 1..Len(cb_calls) : cb_calls[i] = rx[i].state.val

\* the receive threads that have been started and have not ended
Alive == { tid \in 1..MaxThreads : f_pc[tid] \in {"loop", "store", "locked"} }

\* C28: at most one receive thread is active per FollowerNode at any time: a new one is
\* created only when the previous one has ended.
C28_OneReceiveThread == Cardinality(Alive) <= 1

====
